---- MODULE Spec2Model ----
(***************************************************************************)
(* CHIP-8 interpreter of rust8: the instruction decoder                    *)
(* (src/hardware/instruction_decoder.rs), the CPU engine                   *)
(* (src/hardware/chip8.rs) and the host loop that drives it (src/main.rs). *)
(***************************************************************************)
EXTENDS Integers, Sequences, FiniteSets, TLC

VARIABLES
    program_counter,  \* Chip8.program_counter : u16
    registers,        \* Chip8.registers : [u8; 16]
    stack,            \* Chip8.stack : Vec<u16>
    i,                \* Chip8.i : u16
    memory,           \* Chip8.memory : [u8; 4096]
    sound_timer,      \* Chip8.sound_timer : u8
    delay_timer,      \* Chip8.delay_timer : u8
    pixels,           \* the host's frame, 64*32*4 bytes
    overflow_checks,  \* build profile: TRUE = integer overflow panics (debug)
    panicked,         \* the process died in a panic
    host,             \* main's position: "load" before load_rom, "run" in the event loop
    steps,            \* number of step calls made so far
    timer_log,        \* history: per timer, the value last written and, under
                      \* SpecTimers, the update_timers calls made since
    dump_log,         \* history: the last completed Dump, and whether i and the
                      \* bytes it wrote have been left alone since
    last              \* the last step: what it decoded and the state it started from

vars == <<program_counter, registers, stack, i, memory, sound_timer, delay_timer,
          pixels, overflow_checks, panicked, host, steps, timer_log, dump_log,
          last>>

(***************************************************************************)
(* Program constants                                                       *)
(***************************************************************************)
PROGRAM_START_ADDRESS == 512
REGISTER_COUNT == 16
MEMORY_SIZE == 4096
SCREEN_WIDTH == 64
SCREEN_HEIGHT == 32
SPRITE_WIDTH == 8
PIXEL_ON == 255
PIXEL_OFF == 0
FRAME_SIZE == 8192
U16 == 65536
U8 == 256

FONT ==
    << 240, 144, 144, 144, 240,
        32,  96,  32,  32, 112,
       240,  16, 240, 128, 240,
       240,  16, 240,  16, 240,
       144, 144, 240,  16,  16,
       240, 128, 240,  16, 240,
       240, 128, 240, 144, 240,
       240,  16,  32,  64,  64,
       240, 144, 240, 144, 240,
       240, 144, 240,  16, 240,
       240, 144, 240, 144, 144,
       224, 144, 224, 144, 224,
       240, 128, 128, 128, 240,
       224, 144, 144, 144, 224,
       240, 128, 240, 128, 240,
       240, 128, 240, 128, 128 >>

(***************************************************************************)
(* Bounds of the model                                                     *)
(***************************************************************************)
MaxSteps == 5

\* update_timers calls counted after a timer write
MaxTicks == 3

(***************************************************************************)
(* u8 / u16 arithmetic                                                     *)
(***************************************************************************)
Pow2(k) == CASE k = 0 -> 1 [] k = 1 -> 2 [] k = 2 -> 4 [] k = 3 -> 8
             [] k = 4 -> 16 [] k = 5 -> 32 [] k = 6 -> 64 [] k = 7 -> 128

Bit(v, k) == (v \div Pow2(k)) % 2

\* T is the truth table of the bit operation: T[a + 1][b + 1]
RECURSIVE BitOp(_, _, _, _)
BitOp(T, a, b, k) ==
    IF k = 8 THEN 0
    ELSE T[Bit(a, k) + 1][Bit(b, k) + 1] * Pow2(k) + BitOp(T, a, b, k + 1)

And8(a, b) == BitOp(<< <<0, 0>>, <<0, 1>> >>, a, b, 0)
Or8(a, b)  == BitOp(<< <<0, 1>>, <<1, 1>> >>, a, b, 0)
Xor8(a, b) == BitOp(<< <<0, 1>>, <<1, 0>> >>, a, b, 0)

\* u8::reverse_bits
RECURSIVE ReverseFrom(_, _)
ReverseFrom(v, k) ==
    IF k = 8 THEN 0 ELSE Bit(v, k) * Pow2(7 - k) + ReverseFrom(v, k + 1)

reverse_bits(v) == ReverseFrom(v, 0)

\* a u16 result that does not fit: a panic when the build checks overflow,
\* two's-complement wrapping when it does not
Overflows(v) == v < 0 \/ v >= U16
Wrap16(v) == v % U16

\* A Rust array or slice is a sequence here; its indices start at 0.
Array(f) == SubSeq(f, 1, Len(f))
At(a, index) == a[index + 1]
Put(a, index, value) == [a EXCEPT ![index + 1] = value]

(***************************************************************************)
(* Instruction::decode                                                     *)
(***************************************************************************)
Ins(name, opcode) ==
    [name       |-> name,
     register_x |-> (opcode \div 256) % 16,
     register_y |-> (opcode \div 16) % 16,
     address    |-> opcode % 4096,
     nn         |-> opcode % 256,
     n          |-> opcode % 16]

\* mutant: the 0 family is matched on its low byte
Decode0_LowByte(opcode) ==
    CASE opcode % 256 = 224 -> "Clear"
      [] opcode % 256 = 238 -> "Ret"
      [] OTHER -> "NoOp"

Decode0(opcode) ==
    CASE opcode % 4096 = 224 -> "Clear"
      [] opcode % 4096 = 238 -> "Ret"
      [] OTHER -> "NoOp"

Decode8(opcode) ==
    CASE opcode % 16 = 0 -> "SetRegReg"
      [] opcode % 16 = 1 -> "SetRegOrReg"
      [] opcode % 16 = 2 -> "SetRegAndReg"
      [] opcode % 16 = 3 -> "SetRegXorReg"
      [] opcode % 16 = 4 -> "AddRegReg"
      [] opcode % 16 = 5 -> "SubRegReg"
      [] opcode % 16 = 6 -> "ShiftRegRight"
      [] opcode % 16 = 7 -> "RevRegSubReg"
      [] opcode % 16 = 14 -> "ShiftRegLeft"
      [] OTHER -> "unimplemented"

DecodeE(opcode) ==
    CASE opcode % 256 = 158 -> "KeyDown"
      [] opcode % 256 = 161 -> "KeyUp"
      [] OTHER -> "unreachable"

\* mutant: an unknown 0xF opcode falls back to the no-op
DecodeF_Lenient(opcode) ==
    CASE opcode % 256 = 7 -> "SetRegDelay"
      [] opcode % 256 = 10 -> "SetRegKey"
      [] opcode % 256 = 21 -> "SetDelayReg"
      [] opcode % 256 = 24 -> "SetSoundReg"
      [] opcode % 256 = 30 -> "AddIReg"
      [] opcode % 256 = 41 -> "SetISpriteReg"
      [] opcode % 256 = 51 -> "BCD"
      [] opcode % 256 = 85 -> "Dump"
      [] opcode % 256 = 101 -> "Load"
      [] OTHER -> "NoOp"

DecodeF(opcode) ==
    CASE opcode % 256 = 7 -> "SetRegDelay"
      [] opcode % 256 = 10 -> "SetRegKey"
      [] opcode % 256 = 21 -> "SetDelayReg"
      [] opcode % 256 = 24 -> "SetSoundReg"
      [] opcode % 256 = 30 -> "AddIReg"
      [] opcode % 256 = 41 -> "SetISpriteReg"
      [] opcode % 256 = 51 -> "BCD"
      [] opcode % 256 = 85 -> "Dump"
      [] opcode % 256 = 101 -> "Load"
      [] OTHER -> "unreachable"

DecodeName(opcode) ==
    CASE opcode \div 4096 = 0 -> Decode0(opcode)
      [] opcode \div 4096 = 1 -> "Jmp"
      [] opcode \div 4096 = 2 -> "Call"
      [] opcode \div 4096 = 3 -> "RegEqVal"
      [] opcode \div 4096 = 4 -> "RegNeqVal"
      [] opcode \div 4096 = 5 -> "RegEqReg"
      [] opcode \div 4096 = 6 -> "SetRegVal"
      [] opcode \div 4096 = 7 -> "AddRegVal"
      [] opcode \div 4096 = 8 -> Decode8(opcode)
      [] opcode \div 4096 = 9 -> "RegNeqReg"
      [] opcode \div 4096 = 10 -> "SetI"
      [] opcode \div 4096 = 11 -> "JmpOffset"
      [] opcode \div 4096 = 12 -> "SetRegRand"
      [] opcode \div 4096 = 13 -> "Draw"
      [] opcode \div 4096 = 14 -> DecodeE(opcode)
      [] opcode \div 4096 = 15 -> DecodeF(opcode)

decode(opcode) == Ins(DecodeName(opcode), opcode)

\* the decoder's panics (unimplemented!(), unreachable!())
DecodePanics == {"unimplemented", "unreachable"}

\* the variants of enum Instruction
Variants ==
    {"Clear", "NoOp", "Call", "Ret", "Jmp", "RegEqVal", "RegNeqVal", "RegEqReg",
     "SetRegVal", "AddRegVal", "SetRegReg", "SetRegOrReg", "SetRegAndReg",
     "SetRegXorReg", "AddRegReg", "SubRegReg", "ShiftRegRight", "RevRegSubReg",
     "ShiftRegLeft", "RegNeqReg", "SetI", "SetRegRand", "JmpOffset", "Draw",
     "KeyUp", "KeyDown", "SetRegDelay", "SetRegKey", "SetDelayReg", "SetSoundReg",
     "AddIReg", "SetISpriteReg", "BCD", "Dump", "Load"}

(***************************************************************************)
(* Chip8: the machine as a record, and its private helpers                 *)
(***************************************************************************)
Panic(m) == [m EXCEPT !.panicked = TRUE]

get_register(m, register) == m.registers[register]

set_register(m, register, value) == [m EXCEPT !.registers[register] = value]

get_opcode(m) ==
    At(m.memory, m.program_counter) * 256 + At(m.memory, m.program_counter + 1)

\* memory[program_counter] or memory[program_counter + 1] is out of bounds
FetchPanics(m) == m.program_counter + 1 >= MEMORY_SIZE

\* get_sprite_pixel: index = self.i + row (u16), then memory[index]
SpriteIndex(m, row) == Wrap16(m.i + row)

SpritePanics(m, row, checks) ==
    \/ checks /\ Overflows(m.i + row)
    \/ SpriteIndex(m, row) >= MEMORY_SIZE

\* mutant: the sprite byte is read least-significant bit first
get_sprite_pixel_LsbFirst(m, row, col) ==
    Bit(At(m.memory, SpriteIndex(m, row)), col) # 0

get_sprite_pixel(m, row, col) ==
    Bit(reverse_bits(At(m.memory, SpriteIndex(m, row))), col) # 0

\* the write of a computed u16 to program_counter
StorePC(m, v, checks) ==
    IF checks /\ Overflows(v) THEN Panic(m)
    ELSE [m EXCEPT !.program_counter = Wrap16(v)]

(***************************************************************************)
(* Chip8::step, one operator per arm of the match                          *)
(***************************************************************************)
\* mutant: Clear zeroes the colour bytes and leaves the fourth byte of each pixel
ExecClear_ColourOnly(m) ==
    [m EXCEPT !.pixels = Array([b \in 1..Len(m.pixels) |->
                                  IF b % 4 = 0 THEN @[b] ELSE PIXEL_OFF])]

ExecClear(m) ==
    [m EXCEPT !.pixels = Array([b \in 1..Len(m.pixels) |-> PIXEL_OFF])]

\* mutant: a return on an empty stack falls through as a no-op
ExecRet_SilentNoOp(m, checks) ==
    IF m.stack = <<>> THEN m
    ELSE LET top    == m.stack[Len(m.stack)]
             popped == [m EXCEPT !.stack = SubSeq(@, 1, Len(@) - 1)]
         IN  StorePC(popped, top - 2, checks)

ExecRet(m, checks) ==
    IF m.stack = <<>> THEN Panic(m)
    ELSE LET top    == m.stack[Len(m.stack)]
             popped == [m EXCEPT !.stack = SubSeq(@, 1, Len(@) - 1)]
         IN  StorePC(popped, top - 2, checks)

ExecJmp(m, ins, checks) == StorePC(m, ins.address - 2, checks)

\* mutant: the call pushes its own address, not the return address
ExecCall_PushesOwnAddress(m, ins, checks) ==
    StorePC([m EXCEPT !.stack = Append(@, m.program_counter)], ins.address - 2, checks)

ExecCall(m, ins, checks) ==
    IF checks /\ Overflows(m.program_counter + 2) THEN Panic(m)
    ELSE StorePC([m EXCEPT !.stack = Append(@, Wrap16(m.program_counter + 2))],
                 ins.address - 2, checks)

\* the conditional skips: program_counter += 2 when the condition holds
Skip(m, cond, checks) ==
    IF cond THEN StorePC(m, m.program_counter + 2, checks) ELSE m

ExecRegEqVal(m, ins, checks) ==
    Skip(m, get_register(m, ins.register_x) = ins.nn, checks)

ExecRegNeqVal(m, ins, checks) ==
    Skip(m, get_register(m, ins.register_x) # ins.nn, checks)

ExecRegEqReg(m, ins, checks) ==
    Skip(m, get_register(m, ins.register_x) = get_register(m, ins.register_y), checks)

\* mutant: the skip is taken on equality
ExecRegNeqReg_SkipsOnEqual(m, ins, checks) ==
    Skip(m, get_register(m, ins.register_x) = get_register(m, ins.register_y), checks)

ExecRegNeqReg(m, ins, checks) ==
    Skip(m, get_register(m, ins.register_x) # get_register(m, ins.register_y), checks)

ExecSetRegVal(m, ins) == set_register(m, ins.register_x, ins.nn)

ExecAddRegVal(m, ins) ==
    set_register(m, ins.register_x, (get_register(m, ins.register_x) + ins.nn) % U8)

ExecSetRegReg(m, ins) ==
    set_register(m, ins.register_x, get_register(m, ins.register_y))

ExecSetRegOrReg(m, ins) ==
    set_register(m, ins.register_x,
                 Or8(get_register(m, ins.register_x), get_register(m, ins.register_y)))

ExecSetRegAndReg(m, ins) ==
    set_register(m, ins.register_x,
                 And8(get_register(m, ins.register_x), get_register(m, ins.register_y)))

ExecSetRegXorReg(m, ins) ==
    set_register(m, ins.register_x,
                 Xor8(get_register(m, ins.register_x), get_register(m, ins.register_y)))

\* mutant: the carry test is off by one
ExecAddRegReg_OffByOne(m, ins) ==
    LET x == get_register(m, ins.register_x)
        y == get_register(m, ins.register_y)
        new_x == (x + y) % U8
        is_carry == x + y > U8
    IN  set_register(set_register(m, ins.register_x, new_x),
                     15, IF is_carry THEN 1 ELSE 0)

ExecAddRegReg(m, ins) ==
    LET x == get_register(m, ins.register_x)
        y == get_register(m, ins.register_y)
        new_x == (x + y) % U8
        is_carry == x + y >= U8
    IN  set_register(set_register(m, ins.register_x, new_x),
                     15, IF is_carry THEN 1 ELSE 0)

ExecSubRegReg(m, ins) ==
    LET x == get_register(m, ins.register_x)
        y == get_register(m, ins.register_y)
        new_x == (x - y) % U8
        is_borrow == x - y < 0
    IN  set_register(set_register(m, ins.register_x, new_x),
                     15, IF is_borrow THEN 0 ELSE 1)

ExecShiftRegRight(m, ins) ==
    LET flagged == set_register(m, 15, get_register(m, ins.register_x) % 2)
    IN  [flagged EXCEPT !.registers[ins.register_x] = @ \div 2]

\* mutant: the operands are not reversed
ExecRevRegSubReg_Unreversed(m, ins) ==
    LET x == get_register(m, ins.register_x)
        y == get_register(m, ins.register_y)
        new_x == (x - y) % U8
        is_borrow == x - y < 0
    IN  set_register(set_register(m, ins.register_x, new_x),
                     15, IF is_borrow THEN 0 ELSE 1)

ExecRevRegSubReg(m, ins) ==
    LET x == get_register(m, ins.register_x)
        y == get_register(m, ins.register_y)
        new_x == (y - x) % U8
        is_borrow == y - x < 0
    IN  set_register(set_register(m, ins.register_x, new_x),
                     15, IF is_borrow THEN 0 ELSE 1)

ExecShiftRegLeft(m, ins) ==
    LET flagged == set_register(m, 15, And8(get_register(m, ins.register_x), 128) \div 128)
    IN  [flagged EXCEPT !.registers[ins.register_x] = (@ * 2) % U8]

ExecSetI(m, ins) == [m EXCEPT !.i = ins.address]

ExecSetRegRand(m, ins, random) ==
    set_register(m, ins.register_x, And8(random, ins.nn))

ExecJmpOffset(m, ins, checks) ==
    StorePC(m, get_register(m, 0) + ins.address - 2, checks)

\* The three loops of Draw. d is the frame and the collision flag so far, and
\* d.panicked whether get_sprite_pixel has panicked, which ends the loops.

\* scale each coord to handle 4 byte pixels
PixelIndex(x, y) == 4 * x + y * 4 * 64

\* for pixel in pixels[index..(index + 4)].iter_mut()
\* mutant: the collision flag keeps only the last byte's test
RECURSIVE DrawBytes_LastWins(_, _, _, _)
DrawBytes_LastWins(d, index, k, pixel_to_xor) ==
    IF k = 4 \/ d.panicked THEN d
    ELSE DrawBytes_LastWins(
           [pixels    |-> Put(d.pixels, index + k,
                              Xor8(At(d.pixels, index + k),
                                   IF pixel_to_xor THEN PIXEL_ON ELSE PIXEL_OFF)),
            collision |-> At(d.pixels, index + k) # 0 /\ pixel_to_xor,
            panicked  |-> d.panicked],
           index, k + 1, pixel_to_xor)

\* mutant: the sprite is ORed onto the frame
RECURSIVE DrawBytes_Or(_, _, _, _)
DrawBytes_Or(d, index, k, pixel_to_xor) ==
    IF k = 4 \/ d.panicked THEN d
    ELSE DrawBytes_Or(
           [pixels    |-> Put(d.pixels, index + k,
                              Or8(At(d.pixels, index + k),
                                  IF pixel_to_xor THEN PIXEL_ON ELSE PIXEL_OFF)),
            collision |-> d.collision \/ (At(d.pixels, index + k) # 0 /\ pixel_to_xor),
            panicked  |-> d.panicked],
           index, k + 1, pixel_to_xor)

RECURSIVE DrawBytes(_, _, _, _)
DrawBytes(d, index, k, pixel_to_xor) ==
    IF k = 4 \/ d.panicked THEN d
    ELSE DrawBytes(
           [pixels    |-> Put(d.pixels, index + k,
                              Xor8(At(d.pixels, index + k),
                                   IF pixel_to_xor THEN PIXEL_ON ELSE PIXEL_OFF)),
            collision |-> d.collision \/ (At(d.pixels, index + k) # 0 /\ pixel_to_xor),
            panicked  |-> d.panicked],
           index, k + 1, pixel_to_xor)

\* for col in 0..SPRITE_WIDTH
RECURSIVE DrawCols(_, _, _, _, _, _, _)
DrawCols(d, m, row, col, origin_x, origin_y, checks) ==
    IF col = SPRITE_WIDTH \/ d.panicked THEN d
    ELSE IF SpritePanics(m, row, checks) THEN [d EXCEPT !.panicked = TRUE]
    ELSE LET pixel_to_xor == get_sprite_pixel(m, row, col)
             x == (col + origin_x) % SCREEN_WIDTH
             y == (row + origin_y) % SCREEN_HEIGHT
             index == PixelIndex(x, y)
         IN  DrawCols(DrawBytes(d, index, 0, pixel_to_xor),
                      m, row, col + 1, origin_x, origin_y, checks)

\* for row in 0..sprite_height
RECURSIVE DrawRows(_, _, _, _, _, _, _)
DrawRows(d, m, row, sprite_height, origin_x, origin_y, checks) ==
    IF row = sprite_height \/ d.panicked THEN d
    ELSE DrawRows(DrawCols(d, m, row, 0, origin_x, origin_y, checks),
                  m, row + 1, sprite_height, origin_x, origin_y, checks)

ExecDraw(m, ins, checks) ==
    LET origin_x == get_register(m, ins.register_x)
        origin_y == get_register(m, ins.register_y)
        d == DrawRows([pixels |-> m.pixels, collision |-> FALSE, panicked |-> FALSE],
                      m, 0, ins.n, origin_x, origin_y, checks)
        drawn == [m EXCEPT !.pixels = d.pixels]
    IN  IF d.panicked THEN Panic(drawn)
        ELSE [drawn EXCEPT !.registers[15] = IF d.collision THEN 1 ELSE 0]

ExecKeyDown(m, ins, keys, checks) ==
    Skip(m, keys[ins.register_x], checks)

ExecKeyUp(m, ins, keys, checks) ==
    Skip(m, ~keys[ins.register_x], checks)

ExecSetRegDelay(m, ins) == set_register(m, ins.register_x, m.delay_timer)

\* key_states.iter().enumerate().find(|(_, &key)| key)
\* mutant: the scan keeps the last pressed key
FirstKey_Highest(keys) ==
    LET pressed == {k \in 0..15 : keys[k]}
    IN  IF pressed = {} THEN -1
        ELSE CHOOSE k \in pressed : \A j \in pressed : k >= j

FirstKey(keys) ==
    LET pressed == {k \in 0..15 : keys[k]}
    IN  IF pressed = {} THEN -1
        ELSE CHOOSE k \in pressed : \A j \in pressed : k <= j

ExecSetRegKey(m, ins, keys, checks) ==
    IF FirstKey(keys) >= 0 THEN set_register(m, ins.register_x, FirstKey(keys))
    ELSE StorePC(m, m.program_counter - 2, checks)

ExecSetDelayReg(m, ins) ==
    [m EXCEPT !.delay_timer = get_register(m, ins.register_x)]

ExecSetSoundReg(m, ins) ==
    [m EXCEPT !.sound_timer = get_register(m, ins.register_x)]

ExecAddIReg(m, ins) ==
    [m EXCEPT !.i = Wrap16(m.i + get_register(m, ins.register_x))]

ExecSetISpriteReg(m, ins) ==
    [m EXCEPT !.i = 5 * get_register(m, ins.register_x)]

ExecBCD(m, ins) ==
    LET value == get_register(m, ins.register_x)
    IN  IF m.i + 2 >= MEMORY_SIZE THEN Panic(m)
        ELSE [m EXCEPT !.memory =
                 Put(Put(Put(@, m.i + 2, value % 10),
                         m.i + 1, (value \div 10) % 10),
                     m.i, ((value \div 10) \div 10) % 10)]

\* mutant: the copied range excludes register x
ExecDump_Exclusive(m, ins) ==
    LET address == m.i
    IN  IF address + ins.register_x >= MEMORY_SIZE THEN Panic(m)
        ELSE [m EXCEPT !.memory =
                 Array([a \in 1..MEMORY_SIZE |->
                          IF a - 1 >= address /\ a - 1 < address + ins.register_x
                          THEN m.registers[a - 1 - address] ELSE @[a]])]

ExecDump(m, ins) ==
    LET address == m.i
    IN  IF address + ins.register_x >= MEMORY_SIZE THEN Panic(m)
        ELSE [m EXCEPT !.memory =
                 Array([a \in 1..MEMORY_SIZE |->
                          IF a - 1 >= address /\ a - 1 <= address + ins.register_x
                          THEN m.registers[a - 1 - address] ELSE @[a]])]

ExecLoad(m, ins) ==
    LET address == m.i
    IN  IF address + ins.register_x >= MEMORY_SIZE THEN Panic(m)
        ELSE [m EXCEPT !.registers =
                 [r \in 0..(REGISTER_COUNT - 1) |->
                    IF r <= ins.register_x THEN At(m.memory, address + r) ELSE @[r]]]

Execute(m, ins, keys, checks, random) ==
    CASE ins.name = "NoOp"          -> m
      [] ins.name = "Clear"         -> ExecClear(m)
      [] ins.name = "Ret"           -> ExecRet(m, checks)
      [] ins.name = "Jmp"           -> ExecJmp(m, ins, checks)
      [] ins.name = "Call"          -> ExecCall(m, ins, checks)
      [] ins.name = "RegEqVal"      -> ExecRegEqVal(m, ins, checks)
      [] ins.name = "RegNeqVal"     -> ExecRegNeqVal(m, ins, checks)
      [] ins.name = "RegEqReg"      -> ExecRegEqReg(m, ins, checks)
      [] ins.name = "SetRegVal"     -> ExecSetRegVal(m, ins)
      [] ins.name = "AddRegVal"     -> ExecAddRegVal(m, ins)
      [] ins.name = "SetRegReg"     -> ExecSetRegReg(m, ins)
      [] ins.name = "SetRegOrReg"   -> ExecSetRegOrReg(m, ins)
      [] ins.name = "SetRegAndReg"  -> ExecSetRegAndReg(m, ins)
      [] ins.name = "SetRegXorReg"  -> ExecSetRegXorReg(m, ins)
      [] ins.name = "AddRegReg"     -> ExecAddRegReg(m, ins)
      [] ins.name = "SubRegReg"     -> ExecSubRegReg(m, ins)
      [] ins.name = "ShiftRegRight" -> ExecShiftRegRight(m, ins)
      [] ins.name = "RevRegSubReg"  -> ExecRevRegSubReg(m, ins)
      [] ins.name = "ShiftRegLeft"  -> ExecShiftRegLeft(m, ins)
      [] ins.name = "RegNeqReg"     -> ExecRegNeqReg(m, ins, checks)
      [] ins.name = "SetI"          -> ExecSetI(m, ins)
      [] ins.name = "SetRegRand"    -> ExecSetRegRand(m, ins, random)
      [] ins.name = "JmpOffset"     -> ExecJmpOffset(m, ins, checks)
      [] ins.name = "Draw"          -> ExecDraw(m, ins, checks)
      [] ins.name = "KeyDown"       -> ExecKeyDown(m, ins, keys, checks)
      [] ins.name = "KeyUp"         -> ExecKeyUp(m, ins, keys, checks)
      [] ins.name = "SetRegDelay"   -> ExecSetRegDelay(m, ins)
      [] ins.name = "SetRegKey"     -> ExecSetRegKey(m, ins, keys, checks)
      [] ins.name = "SetDelayReg"   -> ExecSetDelayReg(m, ins)
      [] ins.name = "SetSoundReg"   -> ExecSetSoundReg(m, ins)
      [] ins.name = "AddIReg"       -> ExecAddIReg(m, ins)
      [] ins.name = "SetISpriteReg" -> ExecSetISpriteReg(m, ins)
      [] ins.name = "BCD"           -> ExecBCD(m, ins)
      [] ins.name = "Dump"          -> ExecDump(m, ins)
      [] ins.name = "Load"          -> ExecLoad(m, ins)

\* mutant: the trailing increment is one byte
AdvancePC_OneByte(m, checks) == StorePC(m, m.program_counter + 1, checks)

\* self.program_counter += 2, the last statement of step
AdvancePC(m, checks) == StorePC(m, m.program_counter + 2, checks)

step(m, keys, checks, random) ==
    IF FetchPanics(m) THEN Panic(m)
    ELSE LET ins == decode(get_opcode(m))
         IN  IF ins.name \in DecodePanics THEN Panic(m)
             ELSE LET e == Execute(m, ins, keys, checks, random)
                  IN  IF e.panicked THEN e ELSE AdvancePC(e, checks)

(***************************************************************************)
(* Chip8::new, Chip8::load_rom, Chip8::update_timers                       *)
(***************************************************************************)
\* mutant: the font is not copied into memory
new_NoFont ==
    [program_counter |-> 512,
     registers       |-> [r \in 0..(REGISTER_COUNT - 1) |-> 0],
     stack           |-> <<>>,
     i               |-> 0,
     memory          |-> Array([a \in 1..MEMORY_SIZE |-> 0]),
     sound_timer     |-> 0,
     delay_timer     |-> 0]

new ==
    [program_counter |-> 512,
     registers       |-> [r \in 0..(REGISTER_COUNT - 1) |-> 0],
     stack           |-> <<>>,
     i               |-> 0,
     memory          |-> Array([a \in 1..MEMORY_SIZE |->
                                  IF a <= Len(FONT) THEN FONT[a] ELSE 0]),
     sound_timer     |-> 0,
     delay_timer     |-> 0]

\* mutant: the ROM is copied to the start of memory
load_rom_FromZero(mem, rom) ==
    Array([a \in 1..MEMORY_SIZE |-> IF a <= Len(rom) THEN rom[a] ELSE mem[a]])

load_rom(mem, rom) ==
    Array([a \in 1..MEMORY_SIZE |->
             IF a - 1 >= PROGRAM_START_ADDRESS /\ a - 1 < PROGRAM_START_ADDRESS + Len(rom)
             THEN rom[a - PROGRAM_START_ADDRESS] ELSE mem[a]])

\* mutant: the subtraction wraps below zero
saturating_sub_Wrapping(v, d) == (v - d) % U8

saturating_sub(v, d) == IF v - d < 0 THEN 0 ELSE v - d

(***************************************************************************)
(* The inputs: programs, random bytes, keys and the host's frame           *)
(***************************************************************************)
\* a program given as 16-bit words, big-endian, as the bytes of a ROM file
RECURSIVE Bytes(_)
Bytes(words) ==
    IF words = <<>> THEN <<>>
    ELSE <<Head(words) \div 256, Head(words) % 256>> \o Bytes(Tail(words))

Op(a, b, c, d) == a * 4096 + b * 256 + c * 16 + d

\* the bytes rand::thread_rng().gen::<u8>() may return, sampled
RandBytes == {0, 1, 30, 60, 128, 255}

\* the keys the user touches, and the key_states they can leave
KeyPad == {1, 3}

NoKeys == [k \in 0..15 |-> FALSE]

KeyConfigs == {[k \in 0..15 |-> k \in S] : S \in SUBSET KeyPad}

\* the instructions that read key_states
KeyReaders == {"KeyDown", "KeyUp", "SetRegKey"}

Programs ==
    {
      \* control flow
      <<Op(1, 0, 0, 0)>>, <<Op(1, 0, 0, 1)>>, <<Op(1, 0, 0, 2)>>,
      <<Op(1, 2, 0, 4)>>, <<Op(1, 15, 15, 15)>>,
      <<Op(2, 0, 0, 0)>>, <<Op(2, 0, 0, 1)>>, <<Op(2, 0, 0, 2)>>,
      <<Op(2, 2, 0, 4)>>, <<Op(2, 15, 15, 15)>>,
      <<Op(2, 2, 0, 4), Op(0, 0, 14, 14), Op(2, 2, 0, 8), Op(0, 0, 14, 14),
        Op(0, 0, 14, 14)>>,
      <<Op(0, 0, 14, 14)>>,
      \* opcodes the decoder rejects
      <<Op(8, 0, 0, 8)>>, <<Op(8, 0, 1, 15)>>, <<Op(14, 0, 0, 0)>>,
      <<Op(14, 1, 9, 15)>>, <<Op(15, 0, 0, 0)>>, <<Op(15, 1, 15, 15)>>,
      \* drawing
      <<Op(12, 0, 15, 15), Op(12, 1, 15, 15), Op(13, 0, 1, 5), Op(13, 0, 1, 5)>>,
      <<Op(6, 0, 3, 12), Op(10, 2, 0, 10), Op(13, 0, 1, 1), Op(13, 0, 1, 0),
        Op(13, 0, 1, 15), 65535>>,
      <<Op(13, 0, 0, 5), Op(0, 0, 14, 0)>>,
      <<Op(13, 0, 15, 5), Op(13, 0, 15, 5)>>,
      <<Op(10, 15, 15, 15), Op(13, 0, 1, 2)>>,
      <<Op(13, 0, 0, 5), Op(10, 0, 0, 5), Op(13, 0, 0, 5)>>,
      \* waiting for a key
      <<Op(15, 1, 0, 10), Op(15, 3, 0, 10)>>,
      <<Op(6, 0, 15, 0), Op(6, 1, 0, 10), Op(15, 1, 5, 5), Op(1, 0, 0, 0)>>,
      \* addition
      <<Op(12, 0, 15, 15), Op(12, 1, 15, 15), Op(8, 0, 1, 4)>>,
      <<Op(12, 1, 15, 15), Op(8, 1, 1, 4)>>,
      <<Op(12, 15, 15, 15), Op(12, 0, 15, 15), Op(8, 15, 0, 4)>>,
      <<Op(12, 15, 15, 15), Op(12, 0, 15, 15), Op(8, 0, 15, 4)>>,
      <<Op(12, 15, 15, 15), Op(8, 15, 15, 4)>>,
      \* subtraction, both ways
      <<Op(12, 0, 15, 15), Op(12, 1, 15, 15), Op(8, 0, 1, 5)>>,
      <<Op(12, 0, 15, 15), Op(12, 1, 15, 15), Op(8, 0, 1, 7)>>,
      <<Op(12, 1, 15, 15), Op(8, 1, 1, 5), Op(8, 1, 1, 7)>>,
      <<Op(12, 15, 15, 15), Op(12, 0, 15, 15), Op(8, 15, 0, 5)>>,
      <<Op(12, 15, 15, 15), Op(12, 0, 15, 15), Op(8, 15, 0, 7)>>,
      <<Op(12, 15, 15, 15), Op(12, 0, 15, 15), Op(8, 0, 15, 5), Op(8, 0, 15, 7)>>,
      \* shifts, with and without a y field, and of register 0xF itself
      <<Op(12, 0, 15, 15), Op(8, 0, 0, 6), Op(8, 0, 0, 14)>>,
      <<Op(12, 0, 15, 15), Op(6, 1, 5, 5), Op(8, 0, 1, 6)>>,
      <<Op(12, 0, 15, 15), Op(6, 1, 5, 5), Op(8, 0, 1, 14)>>,
      <<Op(12, 15, 15, 15), Op(8, 15, 0, 6)>>,
      <<Op(12, 15, 15, 15), Op(8, 15, 0, 14)>>,
      \* conditional skips, taken and not taken
      <<Op(12, 0, 0, 1), Op(3, 0, 0, 1)>>,
      <<Op(12, 0, 0, 1), Op(4, 0, 0, 1)>>,
      <<Op(12, 0, 0, 1), Op(12, 1, 0, 1), Op(5, 0, 1, 0)>>,
      <<Op(12, 0, 0, 1), Op(12, 1, 0, 1), Op(9, 0, 1, 0)>>,
      \* timers: written, read back, written again
      <<Op(6, 0, 0, 2), Op(15, 0, 1, 5), Op(15, 0, 1, 8), Op(15, 1, 0, 7)>>,
      <<Op(6, 0, 0, 3), Op(15, 0, 1, 8), Op(6, 0, 0, 1), Op(15, 0, 1, 5)>>,
      \* the ends of the address space: the index register and the program counter
      <<Op(10, 15, 15, 15), Op(6, 0, 0, 1), Op(15, 0, 1, 14)>>,
      <<Op(6, 0, 0, 7), Op(15, 0, 2, 9), Op(15, 0, 1, 14)>>,
      <<Op(1, 15, 15, 14)>>,
      <<Op(6, 0, 15, 15), Op(11, 15, 15, 15)>>,
      <<Op(6, 0, 0, 4), Op(11, 2, 0, 4)>>,
      <<Op(6, 0, 0, 3), Op(11, 2, 0, 4)>>,
      <<Op(11, 0, 0, 0)>>,
      \* memory written and read through the index register
      <<Op(6, 0, 7, 11), Op(15, 0, 3, 3)>>,
      <<Op(10, 3, 0, 0), Op(6, 0, 7, 11), Op(15, 0, 3, 3)>>,
      <<Op(10, 0, 4, 15), Op(6, 0, 7, 11), Op(15, 0, 3, 3)>>,
      <<Op(10, 0, 5, 0), Op(6, 0, 7, 11), Op(15, 0, 3, 3)>>,
      <<Op(10, 15, 15, 14), Op(15, 0, 3, 3)>>,
      <<Op(6, 0, 0, 1), Op(15, 0, 5, 5)>>,
      <<Op(12, 1, 15, 15), Op(12, 2, 15, 15), Op(10, 3, 0, 0), Op(15, 1, 5, 5)>>,
      <<Op(10, 3, 0, 0), Op(15, 0, 5, 5), Op(6, 0, 7, 11), Op(15, 0, 3, 3),
        Op(15, 0, 6, 5)>>,
      <<Op(12, 2, 15, 15), Op(10, 0, 0, 5), Op(15, 1, 6, 5)>>,
      <<Op(10, 3, 0, 0), Op(12, 0, 15, 15), Op(15, 1, 5, 5), Op(12, 0, 15, 15),
        Op(15, 1, 6, 5)>>,
      <<Op(10, 15, 15, 15), Op(15, 1, 5, 5)>>,
      <<Op(10, 15, 15, 15), Op(15, 1, 6, 5)>>,
      <<Op(10, 15, 15, 15), Op(15, 0, 5, 5), Op(15, 0, 6, 5)>>,
      \* machine-code subroutine calls, run as no-ops
      <<Op(0, 1, 2, 3), Op(0, 1, 14, 0), Op(0, 1, 14, 14), Op(0, 15, 15, 15)>>,
      <<Op(6, 0, 0, 5)>>,
      \* key skips: register 1 holding key 3, register 3 holding key 3, and a
      \* register holding no key number
      <<Op(6, 1, 0, 3), Op(14, 1, 9, 14)>>,
      <<Op(6, 1, 0, 3), Op(14, 1, 10, 1)>>,
      <<Op(6, 3, 0, 3), Op(14, 3, 9, 14), Op(14, 3, 10, 1)>>,
      <<Op(6, 1, 15, 15), Op(14, 1, 9, 14)>>
    }

\* the frame the host hands to the first step: Pixels::new(64, 32, ..), all zero
InitFrame == Array([b \in 1..FRAME_SIZE |-> 0])

NoIns == Ins("none", 0)

(***************************************************************************)
(* The state machine: main's calls                                         *)
(***************************************************************************)
Machine ==
    [program_counter |-> program_counter, registers |-> registers, stack |-> stack,
     i |-> i, memory |-> memory, sound_timer |-> sound_timer,
     delay_timer |-> delay_timer, pixels |-> pixels, panicked |-> panicked]

Init ==
    /\ program_counter = new.program_counter
    /\ registers = new.registers
    /\ stack = new.stack
    /\ i = new.i
    /\ memory = new.memory
    /\ sound_timer = new.sound_timer
    /\ delay_timer = new.delay_timer
    /\ pixels = InitFrame
    /\ overflow_checks \in BOOLEAN
    /\ panicked = FALSE
    /\ host = "load"
    /\ steps = 0
    /\ timer_log = [delay |-> [t |-> new.delay_timer, k |-> 0],
                    sound |-> [t |-> new.sound_timer, k |-> 0]]
    /\ dump_log = [valid |-> FALSE, x |-> 0, i |-> 0, registers |-> new.registers,
                   i_kept |-> FALSE, memory_kept |-> FALSE]
    /\ last = [ins |-> NoIns, program_counter |-> 0, registers |-> new.registers,
               i |-> 0, stack |-> <<>>, keys |-> NoKeys, frame |-> <<>>]

\* main: chip8.load_rom(rom)
LoadRom ==
    /\ host = "load"
    /\ \E words \in Programs :
       \E rom \in {Bytes(words)} :
         \* the slice memory[0x200..0x200 + rom.len()] must exist
         IF PROGRAM_START_ADDRESS + Len(rom) > MEMORY_SIZE
         THEN panicked' = TRUE /\ memory' = memory
         ELSE panicked' = panicked /\ memory' = load_rom(memory, rom)
    /\ host' = "run"
    /\ UNCHANGED <<program_counter, registers, stack, i, sound_timer, delay_timer,
                   pixels, overflow_checks, steps, last, timer_log, dump_log>>

\* the instruction the next step will fetch and decode
Fetched == IF FetchPanics(Machine) THEN NoIns ELSE decode(get_opcode(Machine))

\* main: update(&mut chip8, pixels.get_frame(), &key_states), the key states being
\* whatever the key events since the last step have left
Step ==
    /\ host = "run"
    /\ ~panicked
    /\ steps < MaxSteps
    /\ \E ins \in {Fetched} :
       \E random \in (IF ins.name = "SetRegRand" THEN RandBytes ELSE {0}),
          keys \in (IF ins.name \in KeyReaders THEN KeyConfigs ELSE {NoKeys}) :
       \E m \in {step(Machine, keys, overflow_checks, random)} :
             /\ program_counter' = m.program_counter
             /\ registers' = m.registers
             /\ stack' = m.stack
             /\ i' = m.i
             /\ memory' = m.memory
             /\ sound_timer' = m.sound_timer
             /\ delay_timer' = m.delay_timer
             /\ pixels' = m.pixels
             /\ panicked' = m.panicked
             /\ last' = [ins |-> ins, program_counter |-> program_counter,
                         registers |-> registers, i |-> i, stack |-> stack,
                         keys |-> keys,
                         frame |-> IF ins.name \in {"Draw", "Clear"} THEN pixels ELSE <<>>]
             /\ timer_log' =
                  [delay |-> IF ins.name = "SetDelayReg"
                             THEN [t |-> m.delay_timer, k |-> 0] ELSE timer_log.delay,
                   sound |-> IF ins.name = "SetSoundReg"
                             THEN [t |-> m.sound_timer, k |-> 0] ELSE timer_log.sound]
             /\ dump_log' =
                  IF ins.name = "Dump" /\ ~m.panicked
                  THEN [valid |-> TRUE, x |-> ins.register_x, i |-> i,
                        registers |-> registers, i_kept |-> TRUE, memory_kept |-> TRUE]
                  ELSE [dump_log EXCEPT
                          !.i_kept = @ /\ m.i = i,
                          !.memory_kept =
                             @ /\ \A a \in dump_log.i..(dump_log.i + dump_log.x) :
                                    At(m.memory, a) = At(memory, a)]
    /\ steps' = steps + 1
    /\ UNCHANGED <<overflow_checks, host>>

\* Chip8::update_timers on the machine
update_timers ==
    /\ delay_timer' = saturating_sub(delay_timer, 1)
    /\ sound_timer' = saturating_sub(sound_timer, 1)
    /\ UNCHANGED <<program_counter, registers, stack, i, memory>>

\* main: chip8.update_timers()
UpdateTimers ==
    /\ host = "run"
    /\ ~panicked
    /\ update_timers
    /\ UNCHANGED <<pixels, overflow_checks, panicked, host, steps, last, timer_log,
                   dump_log>>

Next == LoadRom \/ Step \/ UpdateTimers

Spec == Init /\ [][Next]_vars

\* main: chip8.update_timers(), the calls counted in timer_log
UpdateTimersCounted ==
    /\ host = "run"
    /\ ~panicked
    /\ timer_log.delay.k < MaxTicks /\ timer_log.sound.k < MaxTicks
    /\ update_timers
    /\ timer_log' = [delay |-> [timer_log.delay EXCEPT !.k = @ + 1],
                     sound |-> [timer_log.sound EXCEPT !.k = @ + 1]]
    /\ UNCHANGED <<pixels, overflow_checks, panicked, host, steps, last, dump_log>>

NextTimers == LoadRom \/ Step \/ UpdateTimersCounted

\* the same machine, the update_timers calls since each timer write counted
SpecTimers == Init /\ [][NextTimers]_vars

TypeOK ==
    /\ program_counter \in 0..(U16 - 1)
    /\ i \in 0..(U16 - 1)
    /\ \A r \in 0..15 : registers[r] \in 0..255
    /\ sound_timer \in 0..255 /\ delay_timer \in 0..255

(***************************************************************************)
(* Properties                                                              *)
(***************************************************************************)
\* the transition is a call of step
IsStep == steps' = steps + 1

\* the Chip8 fields and the frame are left as they were
MachineUnchanged ==
    UNCHANGED <<program_counter, registers, stack, i, memory, sound_timer,
                delay_timer, pixels>>

\* C1: a step that executes Jmp(addr) or Call(addr) completes and leaves
\* program_counter equal to addr, for every 12-bit addr, 0 and 1 included.
C1_JumpLandsOnTarget ==
    [][(IsStep /\ last'.ins.name \in {"Jmp", "Call"})
         => (~panicked' /\ program_counter' = last'.ins.address)]_vars

\* C2: Call pushes exactly one entry, the address after the Call; Ret on a
\* non-empty stack completes, pops exactly one entry and resumes at the popped
\* address; no other instruction touches the stack, so the depth is the number
\* of Calls less the number of Rets and returns match calls last-in first-out.
C2_CallRetLifo ==
    [][IsStep =>
         /\ (last'.ins.name = "Call" => stack' = Append(stack, program_counter + 2))
         /\ (last'.ins.name = "Ret" /\ stack # <<>>
               => ~panicked' /\ stack = Append(stack', program_counter'))
         /\ (last'.ins.name \notin {"Call", "Ret"} => stack' = stack)]_vars

\* C2's case: the inner return of two nested calls resumes after the inner call
C2_Witness ==
    /\ last.ins.name = "Ret" /\ ~panicked
    /\ last.stack = <<514, 518>>
    /\ stack = <<514>>
    /\ program_counter = 518

\* C3: Ret with an empty stack is fatal: the step does not complete, nothing
\* of the machine or the frame changes, the program counter does not advance.
C3_RetOnEmptyStackIsFatal ==
    [][(IsStep /\ last'.ins.name = "Ret" /\ stack = <<>>)
         => (panicked' /\ MachineUnchanged)]_vars

C3_Witness ==
    /\ last.ins.name = "Ret" /\ last.stack = <<>>
    /\ panicked
    /\ program_counter = last.program_counter

\* the opcodes C4 names: unknown low nibble or byte in the 0x8, 0xE, 0xF families
Rejected(opcode) ==
    \/ opcode \div 4096 = 8 /\ opcode % 16 \notin {0, 1, 2, 3, 4, 5, 6, 7, 14}
    \/ opcode \div 4096 = 14 /\ opcode % 256 \notin {158, 161}
    \/ opcode \div 4096 = 15
         /\ opcode % 256 \notin {7, 10, 21, 24, 30, 41, 51, 85, 101}

\* C4: a step that fetches a rejected opcode ends in a fatal decode error with
\* the machine and the frame unchanged, never run as NoOp or anything else;
\* every other 16-bit opcode decodes to a variant of Instruction.
C4_UnknownOpcodeIsFatal ==
    /\ \A opcode \in 0..(U16 - 1) :
         IF Rejected(opcode) THEN decode(opcode).name \in DecodePanics
         ELSE decode(opcode).name \in Variants
    /\ [][(IsStep /\ ~FetchPanics(Machine) /\ Rejected(get_opcode(Machine)))
            => (panicked' /\ last'.ins.name \notin Variants /\ MachineUnchanged)]_vars

C4_Witness ==
    /\ panicked
    /\ last.ins.name \in DecodePanics
    /\ Rejected(get_opcode(Machine))
    /\ program_counter = last.program_counter

\* the logical pixels of the 64 x 32 display
Display == 0..(SCREEN_WIDTH * SCREEN_HEIGHT - 1)

\* logical pixel p of frame f is on (off): its four bytes are all 0xFF (0x00)
On(f, p) == \A k \in 0..3 : At(f, 4 * p + k) = 255
Off(f, p) == \A k \in 0..3 : At(f, 4 * p + k) = 0

\* C5: Draw(x, y, n), the n sprite rows lying in memory, completes and XORs
\* bit 7 - c of memory[i + r] onto the pixel at column (V[x] + c) mod 64, row
\* (V[y] + r) mod 32, for c in 0..7 and r in 0..n-1; no other pixel changes,
\* and every index it forms lies inside the 64*32*4-byte frame.
C5_DrawXorsWrapped ==
    [][(IsStep /\ last'.ins.name = "Draw" /\ i + last'.ins.n <= MEMORY_SIZE) =>
         \E n \in {last'.ins.n},
            vx \in {registers[last'.ins.register_x]},
            vy \in {registers[last'.ins.register_y]} :
         \E targets \in {{((vx + c) % 64) + 64 * ((vy + r) % 32) :
                            r \in 0..(n - 1), c \in 0..7}} :
           /\ ~panicked'
           /\ \A r \in 0..(n - 1), c \in 0..7, k \in 0..3 :
                \E b \in {4 * (((vx + c) % 64) + 64 * ((vy + r) % 32)) + k} :
                  /\ b \in 0..(FRAME_SIZE - 1)
                  /\ At(pixels', b) =
                       Xor8(At(pixels, b),
                            IF Bit(At(memory, i + r), 7 - c) = 1 THEN 255 ELSE 0)
                  /\ PixelIndex((c + vx) % SCREEN_WIDTH, (r + vy) % SCREEN_HEIGHT) + k = b
           /\ \A p \in Display \ targets :
                \A k \in 0..3 : At(pixels', 4 * p + k) = At(pixels, 4 * p + k)]_vars

\* C5's case: the 8 x 1 sprite 0xFF drawn at (60, 0) lights columns 60..63, 0..3
C5_Witness ==
    /\ last.ins.name = "Draw" /\ ~panicked
    /\ last.ins.n = 1
    /\ last.registers[last.ins.register_x] = 60
    /\ last.registers[last.ins.register_y] = 0
    /\ At(memory, last.i) = 255
    /\ \A p \in Display : On(pixels, p) <=> p \in {60, 61, 62, 63, 0, 1, 2, 3}
    /\ \A p \in Display : Off(last.frame, p)

\* C6: after a completed Draw on a frame of fully-on and fully-off pixels,
\* register 0xF is 1 iff some pixel that was on before the draw is off after
\* it, over all the rows together, and 0 otherwise.
C6_CollisionFlag ==
    [][(IsStep /\ last'.ins.name = "Draw" /\ ~panicked'
          /\ \A p \in Display : On(pixels, p) \/ Off(pixels, p)) =>
         registers'[15] =
           IF \E p \in Display : On(pixels, p) /\ Off(pixels', p) THEN 1 ELSE 0]_vars

\* C6's case: a draw that erased a pixel in its first row and left the flag set
C6_Witness ==
    /\ last.ins.name = "Draw" /\ ~panicked
    /\ last.ins.n > 1
    /\ registers[15] = 1
    /\ \E p \in Display : On(last.frame, p) /\ Off(pixels, p)
    /\ \E p \in Display : Off(last.frame, p) /\ On(pixels, p)

\* C7: the same Draw executed twice in succession with the same i, V[x] and
\* V[y] restores the frame to what it was before the first draw, and the
\* second draw sets register 0xF to 1 iff the first turned some pixel on.
C7_DrawTwiceRestores ==
    [][(/\ IsStep
        /\ last.ins.name = "Draw" /\ last'.ins = last.ins
        /\ ~panicked'
        /\ i = last.i
        /\ registers[last.ins.register_x] = last.registers[last.ins.register_x]
        /\ registers[last.ins.register_y] = last.registers[last.ins.register_y]) =>
         /\ pixels' = last.frame
         /\ registers'[15] = 1 <=>
              \E p \in Display : Off(last.frame, p) /\ On(pixels, p)]_vars

\* C7's case: the second of two equal draws, which erased what the first drew
C7_Witness ==
    /\ last.ins.name = "Draw" /\ ~panicked
    /\ steps >= 2
    /\ \E p \in Display : On(last.frame, p)
    /\ pixels = InitFrame
    /\ registers[15] = 1
    /\ last.registers[15] = 0
    /\ last.ins.register_x # 15 /\ last.ins.register_y # 15

\* C8: every 4-byte pixel group of the frame is all 0x00 or all 0xFF in every
\* state, and a Clear leaves every group all 0x00.
C8_PixelsAreWhole ==
    /\ \A p \in Display :
         On(pixels, p) \/ Off(pixels, p)
    /\ (last.ins.name = "Clear" /\ ~panicked) => \A p \in Display : Off(pixels, p)

\* C8's case: a Clear of a frame that had pixels lit
C8_Witness ==
    /\ last.ins.name = "Clear" /\ ~panicked
    /\ \E p \in Display : On(last.frame, p)
    /\ \A p \in Display : Off(pixels, p)

\* C9: SetRegKey(x) with no key pressed leaves the program counter and the rest
\* of the machine unchanged, so the next step runs it again; with a key pressed
\* it stores the lowest pressed index in V[x] and advances by exactly 2.
C9_KeyWait ==
    [][(IsStep /\ last'.ins.name = "SetRegKey") =>
         IF \A k \in 0..15 : ~last'.keys[k]
         THEN ~panicked' /\ MachineUnchanged
         ELSE /\ ~panicked'
              /\ program_counter' = program_counter + 2
              /\ \E low \in 0..15 :
                   /\ last'.keys[low]
                   /\ \A j \in 0..(low - 1) : ~last'.keys[j]
                   /\ registers' = [registers EXCEPT ![last'.ins.register_x] = low]
              /\ UNCHANGED <<stack, i, memory, sound_timer, delay_timer, pixels>>]_vars

\* C9's case: after a step that waited, a step with keys 1 and 3 down stores 1
C9_Witness ==
    /\ last.ins.name = "SetRegKey" /\ ~panicked
    /\ steps >= 2
    /\ last.program_counter = PROGRAM_START_ADDRESS
    /\ last.keys[1] /\ last.keys[3]
    /\ registers[last.ins.register_x] = 1
    /\ program_counter = last.program_counter + 2

\* C10: AddRegReg(x, y) with a = V[x], b = V[y] leaves register 0xF at 1 if
\* a + b > 255 and 0 otherwise, V[x] = (a + b) mod 256 when x is not 0xF, and
\* every other register as it was.
C10_AddRegReg ==
    [][(IsStep /\ last'.ins.name = "AddRegReg") =>
         \E x \in {last'.ins.register_x},
            sum \in {registers[last'.ins.register_x] + registers[last'.ins.register_y]} :
           /\ ~panicked'
           /\ registers'[15] = IF sum > 255 THEN 1 ELSE 0
           /\ x # 15 => registers'[x] = sum % 256
           /\ \A r \in 0..15 \ {x, 15} : registers'[r] = registers[r]]_vars

\* C10's case: 255 + 60 carries and leaves 59
C10_Witness ==
    /\ last.ins.name = "AddRegReg" /\ ~panicked
    /\ last.ins.register_x # 15
    /\ last.registers[last.ins.register_x] + last.registers[last.ins.register_y] = 315
    /\ registers[last.ins.register_x] = 59
    /\ registers[15] = 1

\* the minuend and subtrahend of a subtraction step: V[x] - V[y] for SubRegReg,
\* V[y] - V[x] for RevRegSubReg
Minuend ==
    IF last'.ins.name = "SubRegReg" THEN registers[last'.ins.register_x]
    ELSE registers[last'.ins.register_y]
Subtrahend ==
    IF last'.ins.name = "SubRegReg" THEN registers[last'.ins.register_y]
    ELSE registers[last'.ins.register_x]

\* C11 as stated: SubRegReg(x, y) leaves V[x] = (a - b) mod 256 and register
\* 0xF = 1 iff a >= b, RevRegSubReg(x, y) leaves V[x] = (b - a) mod 256 and
\* register 0xF = 1 iff b >= a, for every x and y.
C11_SubtractAsStated ==
    [][(IsStep /\ last'.ins.name \in {"SubRegReg", "RevRegSubReg"}) =>
         /\ ~panicked'
         /\ registers'[last'.ins.register_x] = (Minuend - Subtrahend) % 256
         /\ registers'[15] = IF Minuend >= Subtrahend THEN 1 ELSE 0]_vars

\* C11: SubRegReg(x, y) and RevRegSubReg(x, y) leave register 0xF = 1 iff no
\* borrow occurred (a >= b, respectively b >= a) and 0 otherwise, for every x
\* and y; when x is not 0xF they leave V[x] = (a - b) mod 256, respectively
\* (b - a) mod 256; when x is 0xF the flag overwrites the difference.
C11_SubtractNoBorrow ==
    [][(IsStep /\ last'.ins.name \in {"SubRegReg", "RevRegSubReg"}) =>
         /\ ~panicked'
         /\ registers'[15] = IF Minuend >= Subtrahend THEN 1 ELSE 0
         /\ last'.ins.register_x # 15 =>
               registers'[last'.ins.register_x] = (Minuend - Subtrahend) % 256
         /\ \A r \in 0..15 \ {last'.ins.register_x, 15} :
               registers'[r] = registers[r]]_vars

\* C11's case: the reverse subtraction 30 - 60 borrows and leaves 226
C11_Witness ==
    /\ last.ins.name = "RevRegSubReg" /\ ~panicked
    /\ last.ins.register_x # 15
    /\ last.registers[last.ins.register_x] = 60
    /\ last.registers[last.ins.register_y] = 30
    /\ registers[last.ins.register_x] = 226
    /\ registers[15] = 0

\* C12: for every register x in 0..15 holding v, ShiftRegRight(x) leaves
\* register 0xF = v & 1 and V[x] = v >> 1, ShiftRegLeft(x) leaves register
\* 0xF = (v >> 7) & 1 and V[x] = (v << 1) mod 256; the y field has no effect:
\* no other register changes.
C12_ShiftFlag ==
    [][(IsStep /\ last'.ins.name \in {"ShiftRegRight", "ShiftRegLeft"}) =>
         \E x \in {last'.ins.register_x}, v \in {registers[last'.ins.register_x]} :
           /\ ~panicked'
           /\ registers'[15] = IF last'.ins.name = "ShiftRegRight"
                                THEN v % 2 ELSE (v \div 128) % 2
           /\ registers'[x] = IF last'.ins.name = "ShiftRegRight"
                               THEN v \div 2 ELSE (v * 2) % 256
           /\ \A r \in 0..15 \ {x, 15} : registers'[r] = registers[r]]_vars

\* the condition of the register-comparison skip about to run
SkipCondition ==
    CASE last'.ins.name = "RegEqVal"  -> registers[last'.ins.register_x] = last'.ins.nn
      [] last'.ins.name = "RegNeqVal" -> registers[last'.ins.register_x] # last'.ins.nn
      [] last'.ins.name = "RegEqReg"  ->
           registers[last'.ins.register_x] = registers[last'.ins.register_y]
      [] last'.ins.name = "RegNeqReg" ->
           registers[last'.ins.register_x] # registers[last'.ins.register_y]

\* C13: a step of RegEqVal, RegNeqVal, RegEqReg or RegNeqReg completes and
\* advances program_counter by exactly 4 when its condition holds and by
\* exactly 2 when it does not, and changes nothing else of the machine or frame.
C13_SkipAdvance ==
    [][(IsStep /\ last'.ins.name \in {"RegEqVal", "RegNeqVal", "RegEqReg", "RegNeqReg"}) =>
         /\ ~panicked'
         /\ program_counter' = program_counter + (IF SkipCondition THEN 4 ELSE 2)
         /\ UNCHANGED <<registers, stack, i, memory, sound_timer, delay_timer,
                         pixels>>]_vars

\* C13's case: RegNeqReg on registers holding 1 and 0 skips the next instruction
C13_Witness ==
    /\ last.ins.name = "RegNeqReg" /\ ~panicked
    /\ last.registers[last.ins.register_x] = 1
    /\ last.registers[last.ins.register_y] = 0
    /\ program_counter = last.program_counter + 4
    /\ registers = last.registers

\* the transition is a call of update_timers
IsUpdateTimers == timer_log'.delay.k = timer_log.delay.k + 1

Max(a, b) == IF a >= b THEN a ELSE b

\* C14: update_timers sets each timer to max(timer - 1, 0) and changes nothing
\* else; a step leaves delay_timer alone unless it runs SetDelayReg and
\* sound_timer alone unless it runs SetSoundReg, so it never decrements either;
\* and a timer last written with t reads max(t - k, 0) after k update_timers
\* calls, whatever steps ran in between.
C14_Timers ==
    /\ [][IsUpdateTimers =>
            /\ delay_timer' = Max(delay_timer - 1, 0)
            /\ sound_timer' = Max(sound_timer - 1, 0)
            /\ UNCHANGED <<program_counter, registers, stack, i, memory, pixels,
                            panicked>>]_vars
    /\ [][IsStep =>
            /\ last'.ins.name # "SetDelayReg" => delay_timer' = delay_timer
            /\ last'.ins.name # "SetSoundReg" => sound_timer' = sound_timer]_vars
    /\ [](/\ delay_timer = Max(timer_log.delay.t - timer_log.delay.k, 0)
           /\ sound_timer = Max(timer_log.sound.t - timer_log.sound.k, 0))

\* C14's case: sound_timer written with 3, three update_timers calls with
\* steps between them, one of which writes delay_timer with 1 before the last
\* two calls: both timers read 0
C14_Witness ==
    /\ ~panicked /\ steps = 5
    /\ timer_log.sound = [t |-> 3, k |-> 3]
    /\ timer_log.delay = [t |-> 1, k |-> 2]
    /\ sound_timer = 0
    /\ delay_timer = 0

\* C15: in every state reached from new() by load_rom and completed steps,
\* i <= 0x0FFF and program_counter <= 0x0FFF.
C15_AddressesValid ==
    ~panicked => (i <= 4095 /\ program_counter <= 4095)

\* C16 as stated: program_counter is even in every reachable state, whatever
\* program is loaded.
C16_PcEven == program_counter % 2 = 0

Even(n) == n % 2 = 0

\* the step about to run redirects control to an odd address
OddJump ==
    \/ last'.ins.name \in {"Jmp", "Call"} /\ ~Even(last'.ins.address)
    \/ last'.ins.name = "JmpOffset" /\ ~Even(registers[0] + last'.ins.address)

\* C16: program_counter is even after new(), only a step changes it, and a
\* step that starts with program_counter and every stack entry even leaves
\* them even unless it is a Jmp or Call to an odd address or a JmpOffset whose
\* V0 + address is odd; so program_counter stays even in every program whose
\* jumps all have even targets, Ret included.
C16_PcEvenUnlessOddJump ==
    /\ (host = "load" => Even(program_counter))
    /\ [][~IsStep => program_counter' = program_counter]_vars
    /\ [][(/\ IsStep
           /\ Even(program_counter)
           /\ \A k \in 1..Len(stack) : Even(stack[k])
           /\ ~OddJump) =>
            /\ Even(program_counter')
            /\ \A k \in 1..Len(stack') : Even(stack'[k])]_vars

\* C16's case: JmpOffset with V0 = 4 and address 0x204 lands on 0x208
C16_Witness ==
    /\ last.ins.name = "JmpOffset" /\ ~panicked
    /\ last.registers[0] = 4
    /\ last.ins.address = 516
    /\ program_counter = 520

\* the first 80 bytes of a memory
FontBytes(mem) == SubSeq(mem, 1, Len(FONT))

\* C17 as stated: the 80 bytes at memory 0x000 equal FONT in every reachable
\* state, whatever program runs.
C17_FontIntact == FontBytes(memory) = FONT

\* C17: the 80 bytes at memory 0x000 equal FONT after new(), and load_rom,
\* update_timers and every step leave them as they are, except a step that
\* executes BCD or Dump with i below 80, which writes memory at i.
C17_FontUnlessWrittenAtI ==
    /\ (host = "load" => FontBytes(memory) = FONT)
    /\ [][~(IsStep /\ last'.ins.name \in {"BCD", "Dump"} /\ i < Len(FONT))
            => FontBytes(memory') = FontBytes(memory)]_vars

\* C17's case: BCD of 123 at i = 0x050, right behind the font, which is intact
C17_Witness ==
    /\ last.ins.name = "BCD" /\ ~panicked
    /\ last.i = 80
    /\ At(memory, 80) = 1 /\ At(memory, 81) = 2 /\ At(memory, 82) = 3
    /\ FontBytes(memory) = FONT

\* Dump(x) and Load(x) as C18 describes them, the range memory[i..i+x] lying
\* inside memory: Dump copies registers 0..x to it, Load copies it to registers
\* 0..x, and i, the registers above x and the memory outside it are unchanged.
DumpLoadCopy ==
    (IsStep /\ last'.ins.name \in {"Dump", "Load"}
       /\ i + last'.ins.register_x < MEMORY_SIZE) =>
      \E x \in {last'.ins.register_x} :
        /\ ~panicked'
        /\ i' = i
        /\ IF last'.ins.name = "Dump"
           THEN /\ registers' = registers
                /\ \A a \in 0..(MEMORY_SIZE - 1) :
                     At(memory', a) = IF a \in i..(i + x) THEN registers[a - i]
                                      ELSE At(memory, a)
           ELSE /\ memory' = memory
                /\ \A r \in 0..15 :
                     registers'[r] = IF r <= x THEN At(memory, i + r)
                                     ELSE registers[r]

\* C18 as stated: Dump(x) and Load(x) copy registers 0..x to and from
\* memory[i..i+x] and leave i, the registers above x and the rest of memory
\* unchanged; a Load(x) that follows a Dump(x) with i unchanged in between
\* restores registers 0..x to the values they had at the Dump.
C18_DumpLoadAsStated ==
    /\ [][DumpLoadCopy]_vars
    /\ []((/\ last.ins.name = "Load" /\ ~panicked
            /\ dump_log.valid /\ dump_log.i_kept
            /\ last.ins.register_x = dump_log.x) =>
           \A r \in 0..dump_log.x : registers[r] = dump_log.registers[r])

\* C18: Dump(x) and Load(x) copy registers 0..x to and from memory[i..i+x] and
\* leave i, the registers above x and the rest of memory unchanged; a Load(x)
\* that follows a Dump(x) with i and the bytes memory[i..i+x] unchanged in
\* between restores registers 0..x to the values they had at the Dump,
\* whatever was written to the registers in between.
C18_DumpLoadRoundTrip ==
    /\ [][DumpLoadCopy]_vars
    /\ []((/\ last.ins.name = "Load" /\ ~panicked
            /\ dump_log.valid /\ dump_log.i_kept /\ dump_log.memory_kept
            /\ last.ins.register_x = dump_log.x) =>
           \A r \in 0..dump_log.x : registers[r] = dump_log.registers[r])

\* C18's case: V0 dumped as 60, overwritten with 255, and loaded back as 60
C18_Witness ==
    /\ last.ins.name = "Load" /\ ~panicked
    /\ dump_log.valid /\ dump_log.i_kept /\ dump_log.memory_kept
    /\ last.ins.register_x = dump_log.x
    /\ dump_log.registers[0] = 60
    /\ last.registers[0] = 255
    /\ registers[0] = 60

\* C19: decode maps 0x00E0 to Clear, 0x00EE to Ret and every other opcode
\* 0x0nnn to NoOp; a step that runs NoOp completes, advances program_counter
\* by 2 and leaves registers, i, stack, memory, timers and frame unchanged.
C19_NoOp ==
    /\ \A opcode \in 0..4095 :
         decode(opcode).name = CASE opcode = 224 -> "Clear"
                                 [] opcode = 238 -> "Ret"
                                 [] OTHER -> "NoOp"
    /\ [][(IsStep /\ last'.ins.name = "NoOp") =>
            /\ ~panicked'
            /\ get_opcode(Machine) < 4096
            /\ program_counter' = program_counter + 2
            /\ UNCHANGED <<registers, i, stack, memory, sound_timer, delay_timer,
                            pixels>>]_vars

\* C19's case: opcode 0x01EE, which is not Ret, run as the third of three no-ops
C19_Witness ==
    /\ last.ins.name = "NoOp" /\ ~panicked
    /\ last.ins.address = 494
    /\ last.program_counter = 516
    /\ program_counter = 518
    /\ registers = last.registers /\ stack = <<>>

\* the transition is main's load_rom, and it copied the ROM 0x60 0x05, the one
\* program that begins with these two bytes
Loads6005 ==
    /\ host = "load" /\ host' = "run" /\ ~panicked'
    /\ At(memory', 512) = 96 /\ At(memory', 513) = 5

\* C20: after new(), program_counter is 0x200, the registers, the timers and i
\* are 0, the stack is empty and memory[0..79] is the font; load_rom of 0x60
\* 0x05 puts them at 0x200 and 0x201 and changes nothing else; the first step
\* then leaves V0 = 5 and program_counter = 0x202 and everything else unchanged.
C20_FirstStep ==
    /\ (/\ program_counter = 512
        /\ \A r \in 0..15 : registers[r] = 0
        /\ sound_timer = 0 /\ delay_timer = 0
        /\ i = 0
        /\ stack = <<>>
        /\ \A a \in 0..79 : At(memory, a) = FONT[a + 1])
    /\ [][Loads6005 =>
            /\ \A a \in 0..(MEMORY_SIZE - 1) \ {512, 513} :
                 At(memory', a) = At(memory, a)
            /\ UNCHANGED <<program_counter, registers, stack, i, sound_timer,
                            delay_timer, pixels>>]_vars
    /\ [][(IsStep /\ steps = 0 /\ get_opcode(Machine) = 24581) =>
            /\ ~panicked'
            /\ registers' = [registers EXCEPT ![0] = 5]
            /\ program_counter' = 514
            /\ UNCHANGED <<i, stack, memory, sound_timer, delay_timer,
                            pixels>>]_vars

\* C20's case: the first step of the ROM 0x60 0x05
C20_Witness ==
    /\ steps = 1 /\ ~panicked
    /\ last.ins.name = "SetRegVal" /\ last.ins.nn = 5 /\ last.ins.register_x = 0
    /\ last.program_counter = 512
    /\ At(memory, 512) = 96 /\ At(memory, 513) = 5
    /\ \A r \in 0..15 : registers[r] = IF r = 0 THEN 5 ELSE 0
    /\ program_counter = 514

\* C21: for every register x whose value k = V[x] is in 0..15, KeyDown(x)
\* advances program_counter by 4 iff key_states[k] is true and by 2 otherwise,
\* and KeyUp(x) by 4 iff key_states[k] is false and by 2 otherwise: the key is
\* selected by the value held in the register, not by the register's index.
C21_KeySkipByValue ==
    [][(IsStep /\ last'.ins.name \in {"KeyDown", "KeyUp"}
          /\ registers[last'.ins.register_x] \in 0..15) =>
         \E k \in {registers[last'.ins.register_x]} :
           /\ ~panicked'
           /\ program_counter' = program_counter +
                (IF last'.keys[k] <=> (last'.ins.name = "KeyDown") THEN 4 ELSE 2)]_vars

====
